---- MODULE Spec2Model ----
(***************************************************************************)
(* Model of the provider dispatch layer of the summarizer popup:           *)
(*   generateSummary (dispatch coordinator)  src/providers/claude.js       *)
(*   classifyError   (error classifier)      src/providers/claude.js       *)
(*   ClaudeProvider / GeminiProvider / OpenAIProvider adapters             *)
(* JavaScript runs one task at a time: an action below is one task         *)
(* together with the microtasks (promise continuations) it triggers.       *)
(***************************************************************************)
EXTENDS Integers, Sequences, FiniteSets, TLC

\* ------------------------------------------------------------------ bounds
\* number of dispatches made one after the other in a behaviour
MaxDispatches == 2

\* clicks on the summarize button
MaxRuns == 2

\* calls of the classifier on one piece of evidence
MaxClassifyCalls == 2

\* ------------------------------------------------------- program constants
\* extractPageContent keeps at most two images: .slice(0, 2)
MaxImages == 2
\* GeminiProvider.generateSummary: MAX_IMAGE_PAYLOAD = 3 * 1024 * 1024
MAX_IMAGE_PAYLOAD == 3145728
\* classifyError(error, httpStatus = null): a status that is absent (null,
\* undefined) is falsy, as is 0
NoStatus == 0

\* a value that is null or undefined
Null == "<null>"

Truthy(s) == s # Null /\ s # ""

ERROR_TYPES ==
  [ NETWORK_ERROR |-> "network_error",
    UNAUTHORIZED |-> "unauthorized",
    RATE_LIMIT |-> "rate_limit",
    SERVER_ERROR |-> "server_error",
    TIMEOUT |-> "timeout",
    INVALID_RESPONSE |-> "invalid_response",
    CONTENT_EXTRACTION_FAILED |-> "content_extraction_failed",
    UNKNOWN |-> "unknown" ]

ErrorTypeValues == { ERROR_TYPES[k] : k \in DOMAIN ERROR_TYPES }

\* the message texts are written without their leading emoji; the prefix of
\* the surfaced provider message is written "X "
USER_MESSAGES ==
  [ network_error |-> "Network error: Please check your internet connection.",
    unauthorized |-> "Invalid API key. Please update your API key in the extension settings.",
    rate_limit |-> "Rate limited: Too many requests. Please try again in a few moments.",
    server_error |-> "AI service temporarily unavailable. Please try again later.",
    timeout |-> "Request timed out. Please try again.",
    invalid_response |-> "Unexpected response from AI service. Please try again.",
    content_extraction_failed |-> "Could not extract content from this page. Try a different page.",
    unknown |-> "An unexpected error occurred. Please try again." ]

MODEL_NOT_FOUND_MESSAGE ==
  "AI model not found. The selected model may not be available for your API key."

\* ------------------------------------------------------------ input domains
RegisteredProviders == {"openai", "gemini", "claude"}

\* names every object literal inherits from Object.prototype
ObjectPrototypeKeys == {"constructor"}

ProviderIds == RegisteredProviders \cup ObjectPrototypeKeys \cup {"mistral"}

ImageUrls == {"img1", "img2"}

ImageLists ==
  { s \in UNION { [1..n -> ImageUrls] : n \in 0..MaxImages } :
      \A i, j \in DOMAIN s : i # j => s[i] # s[j] }

\* non-success statuses a provider can answer with
HttpStatuses == {400, 401, 403, 404, 422, 429, 500, 503}

ProviderMessage == "provider says: quota or model problem"

\* message of a provider's error body: unparsable body or no error.message
\* field (Null), or a message
ErrorBodyMessages == {Null, ProviderMessage}

\* messages of the TypeError a rejected fetch() carries
FetchRejectMessages == {"Failed to fetch", "Load failed"}

SummaryTexts == {"summary A", "summary B"}

\* the text of a success envelope; a provider can answer with an empty text
EnvelopeTexts == SummaryTexts \cup {""}

\* the success envelope of provider p holding text t at p's path:
\*   OpenAI  choices[0].message.content
\*   Gemini  candidates[0].content.parts[0].text
\*   Claude  content[0].text
Envelope(p, t) ==
  CASE p = "openai" -> [choices |-> <<[message |-> [content |-> t]]>>]
    [] p = "gemini" -> [candidates |-> <<[content |-> [parts |-> <<[text |-> t]>>]]>>]
    [] OTHER -> [content |-> <<[type |-> "text", text |-> t]>>]

\* JSON objects that parse but hold no text at any provider's path
MalformedObjects ==
  { [id |-> "x"],
    [choices |-> <<>>],
    [choices |-> <<[message |-> [role |-> "assistant"]]>>],
    [candidates |-> <<[finishReason |-> "SAFETY"]>>],
    [content |-> <<>>] }

\* what `await response.json()` of a success response settles with: a parsed
\* object, the JSON value null, or a rejection (the body is not JSON)
OkBodies ==
  { [kind |-> "json", data |-> d] :
      d \in { Envelope(p, t) : p \in RegisteredProviders, t \in EnvelopeTexts }
             \cup MalformedObjects }
  \cup { [kind |-> "null", data |-> [id |-> "x"]],
         [kind |-> "nonjson", data |-> [id |-> "x"]] }

NoBody == [kind |-> "none", data |-> [id |-> "x"]]

\* evidence handed to classifyError directly: every combination of failure
\* type, name, message and HTTP status (an Error object always has a string
\* message; a thrown plain object or null need not)
EvidenceShapes == {"TypeError", "Error", "DOMException", "object", "null"}

EvidenceNames == {Null, "AbortError", "TypeError", "Error"}

EvidenceMessages == {Null, "", "Failed to fetch", "Load failed", "boom"}

EvidenceStatuses == {0, 200} \cup HttpStatuses

Evidence ==
  { [error |-> [shape |-> sh, name |-> n, message |-> m, httpStatus |-> 0],
     httpStatus |-> st] :
      sh \in EvidenceShapes, n \in EvidenceNames, m \in EvidenceMessages,
      st \in EvidenceStatuses }
  \ { e \in [error : [shape : EvidenceShapes, name : EvidenceNames,
                       message : EvidenceMessages, httpStatus : {0}],
              httpStatus : EvidenceStatuses] :
        \/ e.error.shape \in {"TypeError", "Error", "DOMException"}
             /\ e.error.message = Null
        \/ e.error.shape = "null"
             /\ (e.error.name # Null \/ e.error.message # Null) }

NoEvidence == [error |-> [shape |-> "none"], httpStatus |-> 0]

\* lengths of the base64 text of a fetched image
Base64Lens == {400000, 2400000, 4800000}

\* --------------------------------------------------------------- raw errors
TypeErrorOf(msg) ==
  [shape |-> "TypeError", name |-> "TypeError", message |-> msg, httpStatus |-> NoStatus]

AbortError ==
  [shape |-> "DOMException", name |-> "AbortError",
   message |-> "signal is aborted without reason", httpStatus |-> NoStatus]

ErrorOf(msg) ==
  [shape |-> "Error", name |-> "Error", message |-> msg, httpStatus |-> NoStatus]

SyntaxErrorOf(msg) ==
  [shape |-> "SyntaxError", name |-> "SyntaxError", message |-> msg, httpStatus |-> NoStatus]

\* throw { httpStatus, message }
HttpFailure(status, msg) ==
  [shape |-> "object", name |-> Null, message |-> msg, httpStatus |-> status]

\* String.prototype.includes("fetch") on the messages of the model
IncludesFetch(msg) ==
  msg \in {"Failed to fetch", "NetworkError when attempting to fetch resource."}

\* --------------------------------------------------------- error classifier
\* mutant: only status 401 counts as a bad key
classifyErrorOnly401(error, httpStatus) ==
  IF error.shape = "TypeError" /\ IncludesFetch(error.message)
  THEN [type |-> ERROR_TYPES.NETWORK_ERROR,
        userMessage |-> <<USER_MESSAGES.network_error>>,
        debugInfo |-> <<error.message>>]
  ELSE IF error.name = "AbortError"
  THEN [type |-> ERROR_TYPES.TIMEOUT,
        userMessage |-> <<USER_MESSAGES.timeout>>,
        debugInfo |-> <<"Request aborted due to timeout">>]
  ELSE IF httpStatus # NoStatus /\ httpStatus = 401
  THEN [type |-> ERROR_TYPES.UNAUTHORIZED,
        userMessage |-> <<USER_MESSAGES.unauthorized>>,
        debugInfo |-> <<"HTTP 401: Unauthorized">>]
  ELSE IF httpStatus # NoStatus /\ httpStatus = 429
  THEN [type |-> ERROR_TYPES.RATE_LIMIT,
        userMessage |-> <<USER_MESSAGES.rate_limit>>,
        debugInfo |-> <<"HTTP 429: Rate limit exceeded">>]
  ELSE IF httpStatus # NoStatus /\ httpStatus = 404
  THEN [type |-> ERROR_TYPES.UNKNOWN,
        userMessage |-> <<MODEL_NOT_FOUND_MESSAGE>>,
        debugInfo |-> <<"HTTP 404: Model not found">>]
  ELSE IF httpStatus # NoStatus /\ httpStatus >= 500
  THEN [type |-> ERROR_TYPES.SERVER_ERROR,
        userMessage |-> <<USER_MESSAGES.server_error>>,
        debugInfo |-> <<"HTTP ", ToString(httpStatus), ": Server error">>]
  ELSE [type |-> ERROR_TYPES.UNKNOWN,
        userMessage |-> <<USER_MESSAGES.unknown>>,
        debugInfo |-> <<IF Truthy(error.message) THEN error.message
                        ELSE "Unknown error occurred">>]

\* mutant: an unlisted HTTP status gets a kind of its own
classifyErrorHttpKind(error, httpStatus) ==
  IF error.shape = "TypeError" /\ IncludesFetch(error.message)
  THEN [type |-> ERROR_TYPES.NETWORK_ERROR,
        userMessage |-> <<USER_MESSAGES.network_error>>,
        debugInfo |-> <<error.message>>]
  ELSE IF error.name = "AbortError"
  THEN [type |-> ERROR_TYPES.TIMEOUT,
        userMessage |-> <<USER_MESSAGES.timeout>>,
        debugInfo |-> <<"Request aborted due to timeout">>]
  ELSE IF httpStatus # NoStatus /\ httpStatus \in {400, 401, 403}
  THEN [type |-> ERROR_TYPES.UNAUTHORIZED,
        userMessage |-> <<USER_MESSAGES.unauthorized>>,
        debugInfo |-> <<"HTTP ", ToString(httpStatus), ": Unauthorized / Bad API key">>]
  ELSE IF httpStatus # NoStatus /\ httpStatus = 429
  THEN [type |-> ERROR_TYPES.RATE_LIMIT,
        userMessage |-> <<USER_MESSAGES.rate_limit>>,
        debugInfo |-> <<"HTTP 429: Rate limit exceeded">>]
  ELSE IF httpStatus # NoStatus /\ httpStatus = 404
  THEN [type |-> ERROR_TYPES.UNKNOWN,
        userMessage |-> <<MODEL_NOT_FOUND_MESSAGE>>,
        debugInfo |-> <<"HTTP 404: Model not found">>]
  ELSE IF httpStatus # NoStatus /\ httpStatus >= 500
  THEN [type |-> ERROR_TYPES.SERVER_ERROR,
        userMessage |-> <<USER_MESSAGES.server_error>>,
        debugInfo |-> <<"HTTP ", ToString(httpStatus), ": Server error">>]
  ELSE IF httpStatus # NoStatus
  THEN [type |-> "http_error",
        userMessage |-> <<USER_MESSAGES.unknown>>,
        debugInfo |-> <<"HTTP ", ToString(httpStatus)>>]
  ELSE [type |-> ERROR_TYPES.UNKNOWN,
        userMessage |-> <<USER_MESSAGES.unknown>>,
        debugInfo |-> <<IF Truthy(error.message) THEN error.message
                        ELSE "Unknown error occurred">>]

classifyError(error, httpStatus) ==
  IF error.shape = "TypeError" /\ IncludesFetch(error.message)
  THEN [type |-> ERROR_TYPES.NETWORK_ERROR,
        userMessage |-> <<USER_MESSAGES.network_error>>,
        debugInfo |-> <<error.message>>]
  ELSE IF error.name = "AbortError"
  THEN [type |-> ERROR_TYPES.TIMEOUT,
        userMessage |-> <<USER_MESSAGES.timeout>>,
        debugInfo |-> <<"Request aborted due to timeout">>]
  ELSE IF httpStatus # NoStatus /\ httpStatus \in {400, 401, 403}
  THEN [type |-> ERROR_TYPES.UNAUTHORIZED,
        userMessage |-> <<USER_MESSAGES.unauthorized>>,
        debugInfo |-> <<"HTTP ", ToString(httpStatus), ": Unauthorized / Bad API key">>]
  ELSE IF httpStatus # NoStatus /\ httpStatus = 429
  THEN [type |-> ERROR_TYPES.RATE_LIMIT,
        userMessage |-> <<USER_MESSAGES.rate_limit>>,
        debugInfo |-> <<"HTTP 429: Rate limit exceeded">>]
  ELSE IF httpStatus # NoStatus /\ httpStatus = 404
  THEN [type |-> ERROR_TYPES.UNKNOWN,
        userMessage |-> <<MODEL_NOT_FOUND_MESSAGE>>,
        debugInfo |-> <<"HTTP 404: Model not found">>]
  ELSE IF httpStatus # NoStatus /\ httpStatus >= 500
  THEN [type |-> ERROR_TYPES.SERVER_ERROR,
        userMessage |-> <<USER_MESSAGES.server_error>>,
        debugInfo |-> <<"HTTP ", ToString(httpStatus), ": Server error">>]
  ELSE [type |-> ERROR_TYPES.UNKNOWN,
        userMessage |-> <<USER_MESSAGES.unknown>>,
        debugInfo |-> <<IF Truthy(error.message) THEN error.message
                        ELSE "Unknown error occurred">>]

\* ------------------------------------------------------------ the registry
\* providers[provider] on the object literal of generateSummary
LookupProvider(p) ==
  IF p \in RegisteredProviders THEN "adapter"
  ELSE IF p \in ObjectPrototypeKeys THEN "inherited"
  ELSE "undefined"

\* aiProvider.supportsMultimodal: ClaudeProvider declares no such property
SupportsMultimodal(p) ==
  CASE p = "openai" -> TRUE
    [] p = "gemini" -> TRUE
    [] OTHER -> FALSE

\* mutant: the capability check is missing
ImagesToPassUnfiltered(p, imgs) == imgs

\* const imagesToPass = aiProvider.supportsMultimodal ? images : []
ImagesToPass(p, imgs) == IF SupportsMultimodal(p) THEN imgs ELSE <<>>

ProviderName(p) ==
  CASE p = "openai" -> "OpenAI"
    [] p = "gemini" -> "Gemini"
    [] OTHER -> "Claude"

\* the catch block of generateSummary calls classifyError once in each of its
\* branches: the value that call returns for `error`
DispatchClassified(error) ==
  IF error.name = "AbortError" THEN classifyError(error, NoStatus)
  ELSE IF error.shape = "TypeError" THEN classifyError(error, NoStatus)
  ELSE IF error.httpStatus # NoStatus
  THEN classifyError(
         ErrorOf(IF Truthy(error.message) THEN error.message
                 ELSE "HTTP " \o ToString(error.httpStatus)),
         error.httpStatus)
  ELSE classifyError(error, NoStatus)

\* mutant: the last branch of the catch block rethrows the error it caught
DispatchCatchRethrowsOther(error) ==
  IF error.name = "AbortError" THEN classifyError(error, NoStatus)
  ELSE IF error.shape = "TypeError" THEN classifyError(error, NoStatus)
  ELSE IF error.httpStatus # NoStatus
  THEN LET errorInfo ==
             classifyError(
               ErrorOf(IF Truthy(error.message) THEN error.message
                       ELSE "HTTP " \o ToString(error.httpStatus)),
               error.httpStatus)
       IN IF Truthy(error.message) /\ errorInfo.type = ERROR_TYPES.UNKNOWN
          THEN [errorInfo EXCEPT !.userMessage = <<"X ", error.message>>]
          ELSE errorInfo
  ELSE error

\* mutant: the provider's message is surfaced whatever the classified type
DispatchCatchAlwaysSurfaces(error) ==
  IF error.name = "AbortError" THEN classifyError(error, NoStatus)
  ELSE IF error.shape = "TypeError" THEN classifyError(error, NoStatus)
  ELSE IF error.httpStatus # NoStatus
  THEN LET errorInfo ==
             classifyError(
               ErrorOf(IF Truthy(error.message) THEN error.message
                       ELSE "HTTP " \o ToString(error.httpStatus)),
               error.httpStatus)
       IN IF Truthy(error.message)
          THEN [errorInfo EXCEPT !.userMessage = <<"X ", error.message>>]
          ELSE errorInfo
  ELSE classifyError(error, NoStatus)

\* the catch block of generateSummary: the value it throws for `error`
\* mutant: a TypeError is reported as a timeout
DispatchCatchTypeErrorAsTimeout(error) ==
  IF error.name = "AbortError" \/ error.shape = "TypeError"
  THEN classifyError(AbortError, NoStatus)
  ELSE IF error.httpStatus # NoStatus
  THEN classifyError(
         ErrorOf(IF Truthy(error.message) THEN error.message
                 ELSE "HTTP " \o ToString(error.httpStatus)),
         error.httpStatus)
  ELSE classifyError(error, NoStatus)

DispatchCatch(error) ==
  IF error.name = "AbortError" THEN classifyError(error, NoStatus)
  ELSE IF error.shape = "TypeError" THEN classifyError(error, NoStatus)
  ELSE IF error.httpStatus # NoStatus
  THEN LET errorInfo ==
             classifyError(
               ErrorOf(IF Truthy(error.message) THEN error.message
                       ELSE "HTTP " \o ToString(error.httpStatus)),
               error.httpStatus)
       IN IF Truthy(error.message) /\ errorInfo.type = ERROR_TYPES.UNKNOWN
          THEN [errorInfo EXCEPT !.userMessage = <<"X ", error.message>>]
          ELSE errorInfo
  ELSE classifyError(error, NoStatus)

\* ----------------------------------------------------------- the popup page
\* an API key is the sequence of its characters; no key is stored (the
\* storage answers undefined) is the empty sequence: `!apiKey` treats both alike
NoKey == <<>>

\* what the user has typed into the key field of provider p when its save
\* button is clicked: nothing but blanks, or the key of p with blanks around
KeyInputs(p) ==
  { <<" ">>,
    CASE p = "openai" -> <<" ", "o", "k">>
      [] p = "gemini" -> <<"g", "k", " ">>
      [] OTHER -> <<" ", "c", "k", " ">> }

RECURSIVE TrimStart(_)
TrimStart(s) == IF s # <<>> /\ Head(s) = " " THEN TrimStart(Tail(s)) ELSE s

RECURSIVE TrimEnd(_)
TrimEnd(s) ==
  IF s # <<>> /\ s[Len(s)] = " " THEN TrimEnd(SubSeq(s, 1, Len(s) - 1)) ELSE s

\* String.prototype.trim()
Trim(s) == TrimEnd(TrimStart(s))

\* `${provider}_api_key`
KeyName(p) == p \o "_api_key"

\* chrome.storage.local of a fresh installation
EmptyStorage ==
  [ ai_provider |-> Null,
    openai_api_key |-> NoKey,
    gemini_api_key |-> NoKey,
    claude_api_key |-> NoKey,
    summary_history |-> <<>> ]

\* stored.ai_provider || "openai"
ProviderOf(stored) ==
  IF Truthy(stored.ai_provider) THEN stored.ai_provider ELSE "openai"

\* what tabs.query and scripting.executeScript deliver to summarizePage: the
\* tab is a restricted page, the script cannot run, or extractPageContent
\* returns a text (by its length, at most 12000) and up to 2 images
TextLengths == {0, 99, 100, 12000}

\* the image lists of the pages the popup is opened on
PageImageLists == { imgs \in ImageLists : Len(imgs) \in {0, MaxImages} /\ (imgs # <<>> => imgs[1] = "img1") }

Extractions ==
  { [kind |-> "restricted", len |-> 0, images |-> <<>>],
    [kind |-> "throws", len |-> 0, images |-> <<>>] }
  \cup { [kind |-> "content", len |-> n, images |-> imgs] :
           n \in TextLengths, imgs \in PageImageLists }

\* what the provider and the image hosts answer while the popup is open
PageStatuses == {200, 401, 422, 500}

PageBodies ==
  { [kind |-> "json", data |-> Envelope(p, "summary A")] : p \in RegisteredProviders }
  \cup { [kind |-> "json", data |-> [id |-> "x"]],
         [kind |-> "nonjson", data |-> [id |-> "x"]] }

\* summaries kept in the history
HISTORY_LIMIT == 10

API_KEY_MISSING_MESSAGE == "Please save your API key first."

RESTRICTED_PAGE_MESSAGE ==
  "Cannot summarize this page. Please open a website (e.g. a blog or docs page) and try again."

\* the error of a rendering library (marked.parse, DOMPurify.sanitize)
RenderError == ErrorOf("marked(): input parameter is of type [object Object]")

\* the errors the calling layer constructs itself
ExtractionFailed ==
  [type |-> ERROR_TYPES.CONTENT_EXTRACTION_FAILED,
   userMessage |-> <<USER_MESSAGES.content_extraction_failed>>,
   debugInfo |-> <<"Content extraction failed: ", "Cannot access contents of the page">>]

ContentTooShort(len) ==
  [type |-> ERROR_TYPES.CONTENT_EXTRACTION_FAILED,
   userMessage |-> <<USER_MESSAGES.content_extraction_failed>>,
   debugInfo |-> <<"Extracted content too short: ", ToString(len),
                   " characters (minimum 100 required)">>]

\* mutant: the validation lets a text of 99 characters pass
IsTooShortBelow99(len) == len = 0 \/ len < 99

\* !pageContent || pageContent.length < 100
IsTooShort(len) == len = 0 \/ len < 100

NoReport == [type |-> Null, userMessage |-> <<>>, debugInfo |-> <<>>]

NoExtraction == [kind |-> "none", len |-> 0, images |-> <<>>]

\* ------------------------------------------------------------------- state
VARIABLES
  cur,            \* dispatches started so far; the current one is number cur
  pc,             \* where the current dispatch is suspended
  provider,       \* arguments of the current dispatch
  images,
  imagesPassed,   \* the image list handed to the adapter
  imageResults,   \* Gemini: results of the per-image fetches (Promise.all)
  timer,          \* timer[d]: the setTimeout of dispatch d
  aborted,        \* controller.signal.aborted
  abortCount,     \* times the signal of the current dispatch fired
  timersCreated,  \* setTimeout calls of the current dispatch
  adapterCalls,   \* aiProvider.generateSummary invocations of the current dispatch
  fetchCalls,     \* fetch(endpoint, ...) calls of the current dispatch
  status,         \* response.status of the provider's answer
  request,        \* the outbound provider request
  outcome,        \* what the dispatch returned or threw
  raised,         \* the failure the catch block of the dispatch received
  lateFires,      \* timers that fired after their dispatch had ended
  body,           \* what response.json() of the success response settled with
  completed,      \* Gemini: the image fetches in the order they completed
  classifyCalls,  \* classifyError calls of the current dispatch
  classified,     \* what the last classifyError call returned
  evidence,       \* classifier called directly: its arguments
  verdicts,       \* classifier called directly: what each call returned
  storage,        \* chrome.storage.local
  keyStatus,      \* the text of #key-status: "", "saved" or "invalid"
  runPc,          \* summarizePage: "idle", "storage", "extract", "generate", "ended"
  runResult,      \* how the last run ended: "ok", "failed", "nokey", "restricted"
  runCount,       \* clicks on the summarize button so far
  runProvider,    \* summarizePage: `provider`
  runKey,         \* summarizePage: `apiKey`
  extracted,      \* summarizePage: what the extraction delivered
  runDispatches,  \* generateSummary calls of the run: [provider, apiKey]
  runClassifyCalls, \* classifyError calls of the run
  runClassified,  \* what the classifier returned in the run
  loading,        \* setLoading: the button is disabled
  errorShown,     \* #error-msg: the message shown, <<>> when hidden
  reported,       \* the error shown and logged by the catch of summarizePage
  summary,        \* the global `summary`
  resultShown,    \* #result-container is visible
  calls,          \* the invocations of summarizePage, each [pc, result, after]
  queue,          \* chrome.storage.local requests not answered yet, oldest first
  historyList,    \* #history-list: the history renderHistory rendered last
  summaryResult,  \* the textContent of #summary-result
  copied,         \* what the last copy or download did
  finished,       \* the invocations of summarizePage in the order they ended
  saveCalls       \* the texts saveSummary was called with, in call order

\* the state of generateSummary
gvars ==
  <<cur, pc, provider, images, imagesPassed, imageResults, timer, aborted,
    abortCount, timersCreated, adapterCalls, fetchCalls, status, request,
    outcome, raised, lateFires, body, completed, classifyCalls, classified>>

\* the state of direct classifier calls
cvars == <<evidence, verdicts>>

\* the state of the popup page
\* the state of a run of summarizePage and of what the page shows
runvars ==
  <<runPc, runResult, runCount, runProvider, runKey, extracted,
    runDispatches, runClassifyCalls, runClassified, loading, errorShown,
    reported, summary, resultShown>>

uvars == <<storage, keyStatus, runvars>>

\* the state of concurrent invocations of summarizePage, of the storage
\* requests in flight, of the history list and of the copy buttons
hvars ==
  <<calls, queue, historyList, summaryResult, copied, finished, saveCalls>>

vars == <<gvars, cvars, uvars, hvars>>

NoRequest == [tag |-> "none"]
NoOutcome == [tag |-> "none"]
Return(text) == [tag |-> "return", value |-> text]
Throw(err) == [tag |-> "throw", value |-> err]

NoClassified == [tag |-> "none"]

NoError == [shape |-> "none", name |-> Null, message |-> Null, httpStatus |-> NoStatus]

Pending == [st |-> "pending", len |-> 0]
\* _fetchImageAsBase64 resolved null
NoImage == [st |-> "null", len |-> 0]
ImageData(n) == [st |-> "data", len |-> n]

NoDispatchYet ==
  /\ cur = 0
  /\ pc = "idle"
  /\ provider = Null
  /\ images = <<>>
  /\ imagesPassed = <<>>
  /\ imageResults = <<>>
  /\ timer = [d \in 1..MaxDispatches |-> "none"]
  /\ aborted = FALSE
  /\ abortCount = 0
  /\ timersCreated = 0
  /\ adapterCalls = 0
  /\ fetchCalls = 0
  /\ status = NoStatus
  /\ request = NoRequest
  /\ outcome = NoOutcome
  /\ raised = NoError
  /\ lateFires = 0
  /\ body = NoBody
  /\ completed = <<>>
  /\ classifyCalls = 0
  /\ classified = NoClassified

\* the popup page as init() leaves it on a fresh installation
\* a storage request in flight: who issued it (`by`), for which invocation
\* of summarizePage (0: init), and the value a set writes
StorageGet(by, n) == [op |-> "get", by |-> by, call |-> n, value |-> <<>>]

StorageSet(by, n, v) == [op |-> "set", by |-> by, call |-> n, value |-> v]

\* loadHistory until its await: the read of summary_history is issued
LoadHistoryGet(n) == StorageGet("loadHistory", n)

NoCopy == [op |-> "none", said |-> "none", text |-> ""]

\* init() has read the stored provider and keys and has called loadHistory()
PopupOpened ==
  /\ storage = EmptyStorage
  /\ keyStatus = ""
  /\ runPc = "idle"
  /\ runResult = "none"
  /\ runCount = 0
  /\ runProvider = Null
  /\ runKey = NoKey
  /\ extracted = NoExtraction
  /\ runDispatches = <<>>
  /\ runClassifyCalls = 0
  /\ runClassified = NoClassified
  /\ loading = FALSE
  /\ errorShown = <<>>
  /\ reported = NoReport
  /\ summary = Null
  /\ resultShown = FALSE
  /\ calls = <<>>
  /\ queue = <<LoadHistoryGet(0)>>
  /\ historyList = <<>>
  /\ summaryResult = ""
  /\ copied = NoCopy
  /\ finished = <<>>
  /\ saveCalls = <<>>

\* what the image hosts answer while the popup is open
PageImageResults == {NoImage, ImageData(400000)}

Init ==
  /\ NoDispatchYet
  /\ evidence = NoEvidence
  /\ verdicts = <<>>
  /\ PopupOpened

\* mutant: the finally block is missing
ClearTimeoutMissing(tm, d) == tm

\* clearTimeout(timeoutId) in the finally block of generateSummary
ClearTimeout(tm, d) == [tm EXCEPT ![d] = IF @ = "armed" THEN "cleared" ELSE @]

\* setTimeout(() => controller.abort(), 30000)
SetTimeout(tm, d) == [tm EXCEPT ![d] = "armed"]

\* the system instruction carries the image hint when images.length > 0
SystemPromptHasHint(imgs) == Len(imgs) > 0

\* OpenAI and Claude reference each passed image by URL
UrlAttachments(imgs) == imgs

\* Gemini: the loop over imageResults that pushes inline_data parts
RECURSIVE GeminiAttachments(_, _, _, _)
GeminiAttachments(results, urls, i, payloadBytes) ==
  IF i > Len(results) THEN <<>>
  ELSE IF results[i].st = "data"
  THEN LET imgBytes == (results[i].len * 3) \div 4
       IN IF payloadBytes + imgBytes > MAX_IMAGE_PAYLOAD THEN <<>>
          ELSE <<urls[i]>> \o
               GeminiAttachments(results, urls, i + 1, payloadBytes + imgBytes)
  ELSE GeminiAttachments(results, urls, i + 1, payloadBytes)

\* mutant: the image parts are pushed last image first
GeminiPartsReversed(results, urls) ==
  LET a == GeminiAttachments(results, urls, 1, 0)
  IN [k \in 1..Len(a) |-> a[Len(a) + 1 - k]]

\* mutant: one failed image fetch drops every image part
GeminiPartsAllOrNothing(results, urls) ==
  IF \E i \in DOMAIN results : results[i].st = "null" THEN <<>>
  ELSE GeminiAttachments(results, urls, 1, 0)

\* Gemini: the inline_data parts of the request, after the text part
GeminiParts(results, urls) == GeminiAttachments(results, urls, 1, 0)

\* the body of the adapter's fetch(endpoint, {signal, ...})
BuildRequest(p, imgs, attached) ==
  [tag |-> "request", provider |-> p, hint |-> SystemPromptHasHint(imgs),
   attached |-> attached]

\* the dispatch ends: `return result` or `throw errorInfo`, then finally
Finish(o) ==
  /\ pc' = "done"
  /\ outcome' = o
  /\ timer' = ClearTimeout(timer, cur)

\* the adapter call rejected with err: catch, throw errorInfo, finally
\* mutant: the catch block calls the adapter a second time
CatchRetries(err) ==
  /\ raised' = err
  /\ classifyCalls' = classifyCalls + 1
  /\ classified' = DispatchClassified(err)
  /\ Finish(Throw(DispatchCatch(err)))
  /\ adapterCalls' = adapterCalls + 1

Catch(err) ==
  /\ raised' = err
  /\ classifyCalls' = classifyCalls + 1
  /\ classified' = DispatchClassified(err)
  /\ Finish(Throw(DispatchCatch(err)))
  /\ UNCHANGED adapterCalls

\* mutant: the Claude adapter drops the signal
FetchIgnoresSignalClaude(p) == p # "claude"

\* every adapter hands the dispatch's signal to its provider call:
\* fetch(endpoint, { signal: signal, ... })
FetchHonoursSignal(p) == TRUE

\* the value generateSummary throws for an unregistered provider
UnknownProviderError(p) ==
  [type |-> ERROR_TYPES.UNKNOWN,
   userMessage |-> <<"Unknown AI provider: ", p>>,
   debugInfo |-> <<"Provider ", p, " not found">>]

\* ----------------------------------------------------------------- actions
\* generateSummary(provider, apiKey, content, type, title, images) up to its
\* first suspension
Dispatch(p, imgs) ==
  /\ pc \in {"idle", "done"}
  /\ cur < MaxDispatches
  /\ cur' = cur + 1
  /\ provider' = p
  /\ images' = imgs
  /\ aborted' = FALSE
  /\ abortCount' = 0
  /\ status' = NoStatus
  /\ body' = NoBody
  /\ completed' = <<>>
  /\ UNCHANGED lateFires
  /\ CASE LookupProvider(p) = "undefined" ->
            /\ pc' = "done"
            /\ outcome' = Throw(UnknownProviderError(p))
            /\ raised' = NoError
            /\ classifyCalls' = 0
            /\ classified' = NoClassified
            /\ imagesPassed' = <<>>
            /\ imageResults' = <<>>
            /\ timersCreated' = 0
            /\ adapterCalls' = 0
            /\ fetchCalls' = 0
            /\ request' = NoRequest
            /\ UNCHANGED timer
       [] LookupProvider(p) = "inherited" ->
            \* the looked-up value is truthy but has no generateSummary:
            \* the call throws a TypeError inside the try block
            /\ pc' = "done"
            /\ raised' = TypeErrorOf("aiProvider.generateSummary is not a function")
            /\ outcome' = Throw(DispatchCatch(raised'))
            /\ classifyCalls' = 1
            /\ classified' = DispatchClassified(raised')
            /\ imagesPassed' = <<>>
            /\ imageResults' = <<>>
            /\ timersCreated' = 1
            /\ adapterCalls' = 0
            /\ fetchCalls' = 0
            /\ request' = NoRequest
            /\ timer' = ClearTimeout(SetTimeout(timer, cur + 1), cur + 1)
       [] OTHER ->
            LET passed == ImagesToPass(p, imgs) IN
            /\ imagesPassed' = passed
            /\ timersCreated' = 1
            /\ timer' = SetTimeout(timer, cur + 1)
            /\ adapterCalls' = 1
            /\ outcome' = NoOutcome
            /\ raised' = NoError
            /\ classifyCalls' = 0
            /\ classified' = NoClassified
            /\ IF p = "gemini" /\ Len(passed) > 0
               THEN /\ pc' = "imgfetch"
                    /\ imageResults' = [i \in 1..Len(passed) |-> Pending]
                    /\ fetchCalls' = 0
                    /\ request' = NoRequest
               ELSE /\ pc' = "fetching"
                    /\ imageResults' = <<>>
                    /\ fetchCalls' = 1
                    /\ request' = BuildRequest(p, passed, UrlAttachments(passed))

\* Gemini: one _fetchImageAsBase64 resolves (null, or the image data); when it
\* is the last one, Promise.all resolves and the adapter calls the provider
ImageFetchDone(i, r) ==
  /\ pc = "imgfetch"
  /\ i \in DOMAIN imageResults
  /\ imageResults[i] = Pending
  /\ LET results == [imageResults EXCEPT ![i] = r] IN
     /\ imageResults' = results
     /\ completed' = Append(completed, i)
     /\ IF \E j \in DOMAIN results : results[j] = Pending
        THEN UNCHANGED <<pc, outcome, raised, timer, fetchCalls, request,
                         adapterCalls, classifyCalls, classified>>
        ELSE /\ request' = BuildRequest(provider, imagesPassed,
                                        GeminiParts(results, imagesPassed))
             /\ fetchCalls' = fetchCalls + 1
             /\ IF aborted /\ FetchHonoursSignal(provider)
                THEN \* fetch called with an aborted signal rejects at once
                     Catch(AbortError)
                ELSE /\ pc' = "fetching"
                     /\ UNCHANGED <<outcome, raised, timer, adapterCalls,
                                    classifyCalls, classified>>
  /\ UNCHANGED <<cur, provider, images, imagesPassed, aborted, abortCount,
                 timersCreated, status, lateFires, body>>

\* the provider answers: fetch resolves with a response
FetchResolve(st) ==
  /\ pc = "fetching"
  /\ status' = st
  /\ pc' = IF st = 200 THEN "okbody" ELSE "errbody"
  /\ UNCHANGED <<cur, provider, images, imagesPassed, imageResults, timer,
                 aborted, abortCount, timersCreated, adapterCalls, fetchCalls,
                 request, outcome, raised, lateFires, body, completed,
                 classifyCalls, classified>>

\* the transport fails: fetch rejects with a TypeError
FetchReject(msg) ==
  /\ pc = "fetching"
  /\ Catch(TypeErrorOf(msg))
  /\ UNCHANGED <<cur, provider, images, imagesPassed, imageResults, aborted,
                 abortCount, timersCreated, fetchCalls, status,
                 request, lateFires, body, completed>>

\* the value at the adapter's response path, with its optional chaining:
\* Null when a step of the path is missing
TextAt(p, data) ==
  CASE p = "openai" ->
         IF /\ "choices" \in DOMAIN data
            /\ Len(data.choices) >= 1
            /\ "message" \in DOMAIN data.choices[1]
            /\ "content" \in DOMAIN data.choices[1].message
         THEN data.choices[1].message.content ELSE Null
    [] p = "gemini" ->
         IF /\ "candidates" \in DOMAIN data
            /\ Len(data.candidates) >= 1
            /\ "content" \in DOMAIN data.candidates[1]
            /\ "parts" \in DOMAIN data.candidates[1].content
            /\ Len(data.candidates[1].content.parts) >= 1
            /\ "text" \in DOMAIN data.candidates[1].content.parts[1]
         THEN data.candidates[1].content.parts[1].text ELSE Null
    [] OTHER ->
         IF /\ "content" \in DOMAIN data
            /\ Len(data.content) >= 1
            /\ "text" \in DOMAIN data.content[1]
         THEN data.content[1].text ELSE Null

\* mutant: the Gemini adapter reads the text at OpenAI's path
AdapterOkBodyWrongPath(p, b) ==
  CASE b.kind = "nonjson" -> Throw(SyntaxErrorOf("Unexpected token < in JSON"))
    [] b.kind = "null" -> Throw(TypeErrorOf("Cannot read properties of null"))
    [] OTHER ->
         LET q == IF p = "gemini" THEN "openai" ELSE p IN
         IF ~Truthy(TextAt(q, b.data))
         THEN Throw(HttpFailure(500, "Invalid response structure from " \o ProviderName(p)))
         ELSE Return(TextAt(q, b.data))

\* what the adapter does with the settled body b of a success response:
\* `const data = await response.json()`, the check of the path, the return
AdapterOkBody(p, b) ==
  CASE b.kind = "nonjson" -> Throw(SyntaxErrorOf("Unexpected token < in JSON"))
    [] b.kind = "null" -> Throw(TypeErrorOf("Cannot read properties of null"))
    [] OTHER ->
         IF ~Truthy(TextAt(p, b.data))
         THEN Throw(HttpFailure(500, "Invalid response structure from " \o ProviderName(p)))
         ELSE Return(TextAt(p, b.data))

\* `await response.json()` of a success response settles
OkBody(b) ==
  /\ pc = "okbody"
  /\ body' = b
  /\ LET r == AdapterOkBody(provider, b) IN
     IF r.tag = "return"
     THEN Finish(r) /\ UNCHANGED <<raised, adapterCalls, classifyCalls, classified>>
     ELSE Catch(r.value)
  /\ UNCHANGED <<cur, provider, images, imagesPassed, imageResults, aborted,
                 abortCount, timersCreated, fetchCalls, status,
                 request, lateFires, completed>>

\* `await response.json()` of a non-success response settles: the adapter
\* throws { httpStatus: response.status, message: apiErrorMessage }
ErrBody(msg) ==
  /\ pc = "errbody"
  /\ Catch(HttpFailure(status, msg))
  /\ UNCHANGED <<cur, provider, images, imagesPassed, imageResults, aborted,
                 abortCount, timersCreated, fetchCalls, status,
                 request, lateFires, body, completed>>

\* the 30 s timer of dispatch d expires: controller.abort()
TimerFire(d) ==
  /\ timer[d] = "armed"
  /\ IF d = cur /\ pc # "done"
     THEN /\ aborted' = TRUE
          /\ abortCount' = abortCount + 1
          /\ UNCHANGED lateFires
          /\ CASE pc \in {"fetching", "okbody"} /\ FetchHonoursSignal(provider) ->
                    \* the pending fetch() / response.json() rejects with AbortError
                    /\ pc' = "done"
                    /\ raised' = AbortError
                    /\ classifyCalls' = classifyCalls + 1
                    /\ classified' = DispatchClassified(AbortError)
                    /\ outcome' = Throw(DispatchCatch(AbortError))
                    /\ timer' = ClearTimeout([timer EXCEPT ![d] = "fired"], d)
               [] pc = "errbody" /\ FetchHonoursSignal(provider) ->
                    \* the rejection of response.json() is swallowed by the
                    \* adapter's catch (parseErr); the message stays null
                    /\ pc' = "done"
                    /\ raised' = HttpFailure(status, Null)
                    /\ classifyCalls' = classifyCalls + 1
                    /\ classified' = DispatchClassified(HttpFailure(status, Null))
                    /\ outcome' = Throw(DispatchCatch(HttpFailure(status, Null)))
                    /\ timer' = ClearTimeout([timer EXCEPT ![d] = "fired"], d)
               [] OTHER ->
                    \* _fetchImageAsBase64 calls fetch(url) without the signal
                    /\ timer' = [timer EXCEPT ![d] = "fired"]
                    /\ UNCHANGED <<pc, outcome, raised, classifyCalls, classified>>
     ELSE /\ lateFires' = lateFires + 1
          /\ timer' = [timer EXCEPT ![d] = "fired"]
          /\ UNCHANGED <<aborted, abortCount, pc, outcome, raised,
                         classifyCalls, classified>>
  /\ UNCHANGED <<cur, provider, images, imagesPassed, imageResults,
                 timersCreated, adapterCalls, fetchCalls, status, request,
                 body, completed>>

\* generateSummary called on its own: nothing else of the page runs
Standalone == UNCHANGED <<cvars, uvars, hvars>>

Next ==
  \/ \E p \in ProviderIds, imgs \in ImageLists : Dispatch(p, imgs) /\ Standalone
  \/ \E i \in 1..MaxImages, r \in {NoImage} \cup {ImageData(n) : n \in Base64Lens} :
       ImageFetchDone(i, r) /\ Standalone
  \/ \E st \in {200} \cup HttpStatuses : FetchResolve(st) /\ Standalone
  \/ \E msg \in FetchRejectMessages : FetchReject(msg) /\ Standalone
  \/ \E b \in OkBodies : OkBody(b) /\ Standalone
  \/ \E msg \in ErrorBodyMessages : ErrBody(msg) /\ Standalone
  \/ \E d \in 1..MaxDispatches : TimerFire(d) /\ Standalone

Spec == Init /\ [][Next]_vars

\* the event loop runs an expired timer's callback; when a remote endpoint
\* answers is up to the network
FairSpec ==
  Spec /\ \A d \in 1..MaxDispatches : WF_vars(TimerFire(d) /\ Standalone)

\* ------------------------------------------- the classifier called directly
ClassifyInit ==
  /\ NoDispatchYet
  /\ evidence \in Evidence
  /\ verdicts = <<>>
  /\ PopupOpened

\* one call classifyError(error, httpStatus)
Classify ==
  /\ evidence # NoEvidence
  /\ Len(verdicts) < MaxClassifyCalls
  /\ verdicts' = Append(verdicts, classifyError(evidence.error, evidence.httpStatus))
  /\ UNCHANGED <<gvars, evidence, uvars, hvars>>

ClassifyNext == Classify

ClassifySpec == ClassifyInit /\ [][ClassifyNext]_vars

\* ------------------------------------------------- the popup page's handlers
\* mutant: the key of openai is used whatever the provider
KeyForOpenAIAlways(stored, p) == stored.openai_api_key

\* stored[`${provider}_api_key`]
KeyFor(stored, p) == stored[KeyName(p)]

\* mutant: saving a key also makes its provider the stored choice
saveApiKeySelectsProvider(p, typed) ==
  /\ LET key == Trim(typed) IN
     IF key = NoKey
     THEN keyStatus' = "invalid" /\ UNCHANGED storage
     ELSE /\ storage' = [storage EXCEPT ![KeyName(p)] = key, !.ai_provider = p]
          /\ keyStatus' = "saved"
  /\ UNCHANGED <<gvars, cvars, runvars, hvars>>

\* mutant: the text of the key field is stored as typed, not trimmed
saveApiKeyUntrimmed(p, typed) ==
  /\ IF typed = NoKey
     THEN keyStatus' = "invalid" /\ UNCHANGED storage
     ELSE /\ storage' = [storage EXCEPT ![KeyName(p)] = typed]
          /\ keyStatus' = "saved"
  /\ UNCHANGED <<gvars, cvars, runvars, hvars>>

\* click on the save button of provider p, with `typed` in its key field
saveApiKey(p, typed) ==
  /\ LET key == Trim(typed) IN
     IF key = NoKey
     THEN keyStatus' = "invalid" /\ UNCHANGED storage
     ELSE /\ storage' = [storage EXCEPT ![KeyName(p)] = key]
          /\ keyStatus' = "saved"
  /\ UNCHANGED <<gvars, cvars, runvars, hvars>>

\* the user selects provider p in #ai-provider (a change event: p is not
\* the option shown, which init() set from the stored choice)
handleProviderChange(p) ==
  /\ p # ProviderOf(storage)
  /\ storage' = [storage EXCEPT !.ai_provider = p]
  /\ keyStatus' = IF KeyFor(storage, p) # NoKey THEN "saved" ELSE ""
  /\ UNCHANGED <<gvars, cvars, runvars, hvars>>

\* click on the summarize button: summarizePage up to its storage.get
summarizePage ==
  /\ runPc \in {"idle", "ended"}
  /\ ~loading
  /\ runCount < MaxRuns
  /\ runCount' = runCount + 1
  /\ runPc' = "storage"
  /\ summary' = Null
  /\ runResult' = "none"
  /\ runProvider' = Null
  /\ runKey' = NoKey
  /\ extracted' = NoExtraction
  /\ runDispatches' = <<>>
  /\ runClassifyCalls' = 0
  /\ runClassified' = NoClassified
  /\ reported' = NoReport
  /\ UNCHANGED <<gvars, cvars, hvars, storage, keyStatus, loading, errorShown,
                 resultShown>>

\* storage.get answers: the provider, its key, the check of the key
summarizePageStored ==
  /\ runPc = "storage"
  /\ runProvider' = ProviderOf(storage)
  /\ runKey' = KeyFor(storage, ProviderOf(storage))
  /\ IF runKey' = NoKey
     THEN /\ errorShown' = <<API_KEY_MISSING_MESSAGE>>
          /\ runPc' = "ended"
          /\ runResult' = "nokey"
          /\ UNCHANGED <<loading, resultShown>>
     ELSE /\ loading' = TRUE
          /\ errorShown' = <<>>
          /\ resultShown' = FALSE
          /\ runPc' = "extract"
          /\ UNCHANGED runResult
  /\ UNCHANGED <<gvars, cvars, hvars, storage, keyStatus, runCount, extracted,
                 runDispatches, runClassifyCalls, runClassified, reported, summary>>

\* err && typeof err === "object" && err.type && err.userMessage
IsStructured(err) ==
  /\ "type" \in DOMAIN err
  /\ Truthy(err.type)
  /\ err.userMessage # <<>>

\* mutant: the catch block classifies whatever it caught
RunCatchReclassifies(err, n, c) ==
  LET info == classifyError(
                IF IsStructured(err)
                THEN [shape |-> "object", name |-> Null, message |-> Null,
                      httpStatus |-> NoStatus]
                ELSE err, NoStatus) IN
  /\ errorShown' = info.userMessage
  /\ reported' = info
  /\ runClassifyCalls' = runClassifyCalls + n + 1
  /\ runClassified' = info
  /\ loading' = FALSE
  /\ runPc' = "ended"
  /\ runResult' = "failed"

\* the catch and finally blocks of summarizePage, for the caught value err;
\* n classifier calls (the last returning c) were made before it was thrown
RunCatch(err, n, c) ==
  /\ IF IsStructured(err)
     THEN /\ errorShown' = err.userMessage
          /\ reported' = [type |-> err.type, userMessage |-> err.userMessage,
                          debugInfo |-> err.debugInfo]
          /\ runClassifyCalls' = runClassifyCalls + n
          /\ runClassified' = IF n > 0 THEN c ELSE runClassified
     ELSE LET errorInfo == classifyError(err, NoStatus) IN
          /\ errorShown' = errorInfo.userMessage
          /\ reported' = [type |-> errorInfo.type,
                          userMessage |-> errorInfo.userMessage,
                          debugInfo |-> errorInfo.debugInfo]
          /\ runClassifyCalls' = runClassifyCalls + n + 1
          /\ runClassified' = errorInfo
  /\ loading' = FALSE
  /\ runPc' = "ended"
  /\ runResult' = "failed"

\* saveSummary: the new summary first, at most 10 kept
SaveSummary(history, text) ==
  LET added == <<text>> \o history IN
  IF Len(added) > HISTORY_LIMIT THEN SubSeq(added, 1, HISTORY_LIMIT) ELSE added

\* the extraction settles: tabs.query, the restricted-page guard,
\* executeScript, the validation of the text, the call of generateSummary
summarizePageExtracted(x) ==
  /\ runPc = "extract"
  /\ extracted' = x
  /\ CASE x.kind = "restricted" ->
            /\ loading' = FALSE
            /\ errorShown' = <<RESTRICTED_PAGE_MESSAGE>>
            /\ runPc' = "ended"
            /\ runResult' = "restricted"
            /\ UNCHANGED <<gvars, runDispatches, runClassifyCalls,
                           runClassified, reported>>
       [] x.kind = "throws" ->
            /\ RunCatch(ExtractionFailed, 0, NoClassified)
            /\ UNCHANGED <<gvars, runDispatches>>
       [] x.kind = "content" /\ IsTooShort(x.len) ->
            /\ RunCatch(ContentTooShort(x.len), 0, NoClassified)
            /\ UNCHANGED <<gvars, runDispatches>>
       [] OTHER ->
            /\ Dispatch(runProvider, x.images)
            /\ runDispatches' =
                 Append(runDispatches, [provider |-> runProvider, apiKey |-> runKey])
            /\ runPc' = "generate"
            /\ UNCHANGED <<runResult, runClassifyCalls, runClassified, loading,
                           errorShown, reported>>
  /\ UNCHANGED <<cvars, hvars, storage, keyStatus, runCount, runProvider,
                 runKey, summary, resultShown>>

\* summarizePage resumes after `await generateSummary(...)` in the step in
\* which the dispatch ends: rendering (renders: marked and DOMPurify do not
\* throw), saveSummary, or the catch block; then finally
Settled(renders) ==
  /\ IF outcome'.tag = "return"
     THEN /\ summary' = outcome'.value
          /\ IF renders
             THEN /\ resultShown' = TRUE
                  /\ storage' = [storage EXCEPT !.summary_history =
                                   SaveSummary(@, outcome'.value)]
                  /\ loading' = FALSE
                  /\ runPc' = "ended"
                  /\ runResult' = "ok"
                  /\ UNCHANGED <<errorShown, reported, runClassifyCalls,
                                 runClassified>>
             ELSE /\ RunCatch(RenderError, 0, NoClassified)
                  /\ UNCHANGED <<resultShown, storage>>
     ELSE /\ RunCatch(outcome'.value, classifyCalls' - classifyCalls, classified')
          /\ UNCHANGED <<summary, resultShown, storage>>
  /\ UNCHANGED <<keyStatus, runCount, runProvider, runKey,
                 extracted, runDispatches>>

\* a step of generateSummary seen from the page
AfterDispatch(renders) ==
  IF runPc = "generate" /\ pc # "done" /\ pc' = "done"
  THEN Settled(renders) /\ UNCHANGED <<cvars, hvars>>
  ELSE UNCHANGED <<cvars, uvars, hvars>>

PopupNext ==
  \/ \E p \in RegisteredProviders : \E typed \in KeyInputs(p) : saveApiKey(p, typed)
  \/ \E p \in RegisteredProviders : handleProviderChange(p)
  \/ summarizePage
  \/ summarizePageStored
  \/ \E x \in Extractions : summarizePageExtracted(x)
  \/ \E i \in 1..MaxImages, r \in PageImageResults :
       ImageFetchDone(i, r) /\ AfterDispatch(TRUE)
  \/ \E st \in PageStatuses : FetchResolve(st) /\ AfterDispatch(TRUE)
  \/ \E msg \in FetchRejectMessages : FetchReject(msg) /\ AfterDispatch(TRUE)
  \/ \E b \in PageBodies, renders \in BOOLEAN : OkBody(b) /\ AfterDispatch(renders)
  \/ \E msg \in ErrorBodyMessages : ErrBody(msg) /\ AfterDispatch(TRUE)
  \/ \E d \in 1..MaxDispatches : TimerFire(d) /\ AfterDispatch(TRUE)

PopupSpec == Init /\ [][PopupNext]_vars

\* ------------------------------------------------ the page, runs overlapping
\* The popup page with every invocation of summarizePage kept apart and
\* every chrome.storage.local request answered in a later step, in the order
\* the requests were issued. generateSummary is seen from the page: it
\* resolves with a text or rejects with a classified error.

\* clicks on the summarize button
MaxClicks == 2

\* the bookkeeping of the run PopupSpec follows
seqvars ==
  <<runPc, runResult, runCount, runProvider, runKey, extracted,
    runDispatches, runClassifyCalls, runClassified, reported>>

\* the summary generateSummary resolves with in invocation n (Markdown)
Markdown(n) == "# summary " \o ToString(n)

\* marked.parse, DOMPurify.sanitize, innerHTML: the text the element shows
TextContent(md) ==
  LET n == CHOOSE k \in 1..MaxClicks : Markdown(k) = md
  IN "summary " \o ToString(n)

NO_SUMMARY_TO_COPY == "No summary to copy."

NO_SUMMARY_TO_DOWNLOAD == "No summary to download."

COPY_FAILED == "Failed to copy. Try manual copy instead."

DOWNLOAD_FAILED == "Failed to download. Try copying instead."

\* the providers the user selects and saves a key for
PageProviders == {"openai", "gemini"}

\* what tabs.query and executeScript deliver
PageExtractions ==
  { x \in Extractions : x.images = <<>> /\ x.len \in {0, 99, 100} }

\* what generateSummary rejects with: a classified error
Rejections ==
  { DispatchClassified(HttpFailure(401, Null)),
    DispatchClassified(TypeErrorOf("Failed to fetch")) }

InProgress(n) == calls[n].pc \in {"storage", "extract", "generate"}

\* the invocation n of summarizePage returns
Ends(n, result) ==
  /\ calls' = [calls EXCEPT ![n] = [@ EXCEPT !.pc = "ended", !.result = result]]
  /\ finished' = Append(finished, n)

\* the catch block and the finally block of invocation n
CallCatch(n, err) ==
  /\ errorShown' = IF IsStructured(err) THEN err.userMessage
                   ELSE classifyError(err, NoStatus).userMessage
  /\ loading' = FALSE
  /\ Ends(n, "failed")

\* a click on the summarize button, which is enabled: summarizePage until
\* its first await
summarizePageCalled ==
  /\ ~loading
  /\ Len(calls) < MaxClicks
  /\ summary' = Null
  /\ calls' = Append(calls, [pc |-> "storage", result |-> "none",
                             after |-> Len(finished)])
  /\ queue' = Append(queue, StorageGet("summarizePage", Len(calls) + 1))
  /\ UNCHANGED <<gvars, cvars, storage, keyStatus, seqvars, loading, errorShown,
                 resultShown, historyList, summaryResult, copied, finished,
                 saveCalls>>

\* storage answers the read of summarizePage: the key check, setLoading(true)
summarizePageGot ==
  /\ queue # <<>>
  /\ Head(queue).by = "summarizePage"
  /\ queue' = Tail(queue)
  /\ LET n == Head(queue).call
         apiKey == KeyFor(storage, ProviderOf(storage)) IN
     IF apiKey = NoKey
     THEN /\ errorShown' = <<API_KEY_MISSING_MESSAGE>>
          /\ Ends(n, "nokey")
          /\ UNCHANGED <<loading, resultShown>>
     ELSE /\ loading' = TRUE
          /\ errorShown' = <<>>
          /\ resultShown' = FALSE
          /\ calls' = [calls EXCEPT ![n] = [@ EXCEPT !.pc = "extract"]]
          /\ UNCHANGED finished
  /\ UNCHANGED <<gvars, cvars, storage, keyStatus, seqvars, summary,
                 historyList, summaryResult, copied, saveCalls>>

\* tabs.query and executeScript settle in invocation n: the restricted-page
\* guard, the validation of the text, the call of generateSummary
summarizePageTab(n, x) ==
  /\ n \in DOMAIN calls
  /\ calls[n].pc = "extract"
  /\ CASE x.kind = "restricted" ->
            /\ loading' = FALSE
            /\ errorShown' = <<RESTRICTED_PAGE_MESSAGE>>
            /\ Ends(n, "restricted")
       [] x.kind = "throws" -> CallCatch(n, ExtractionFailed)
       [] x.kind = "content" /\ IsTooShort(x.len) ->
            CallCatch(n, ContentTooShort(x.len))
       [] OTHER ->
            /\ calls' = [calls EXCEPT ![n] = [@ EXCEPT !.pc = "generate"]]
            /\ UNCHANGED <<loading, errorShown, finished>>
  /\ UNCHANGED <<gvars, cvars, storage, keyStatus, seqvars, summary,
                 resultShown, queue, historyList, summaryResult, copied,
                 saveCalls>>

\* generateSummary settles in invocation n with outcome o: the assignment
\* of `summary`, the rendering, saveSummary and loadHistory until their
\* awaits, or the catch block; then finally
summarizePageGenerated(n, o, renders) ==
  /\ n \in DOMAIN calls
  /\ calls[n].pc = "generate"
  /\ IF o.tag = "return"
     THEN /\ summary' = o.value
          /\ IF renders
             THEN /\ summaryResult' = TextContent(o.value)
                  /\ resultShown' = TRUE
                  /\ saveCalls' = Append(saveCalls, o.value)
                  /\ queue' = queue \o <<StorageGet("saveSummary", n),
                                         LoadHistoryGet(n)>>
                  /\ loading' = FALSE
                  /\ Ends(n, "ok")
                  /\ UNCHANGED errorShown
             ELSE /\ CallCatch(n, RenderError)
                  /\ UNCHANGED <<summaryResult, resultShown, saveCalls, queue>>
     ELSE /\ CallCatch(n, o.value)
          /\ UNCHANGED <<summary, summaryResult, resultShown, saveCalls, queue>>
  /\ UNCHANGED <<gvars, cvars, storage, keyStatus, seqvars, historyList, copied>>

\* storage answers the read of saveSummary: unshift, slice, the write issued
saveSummaryGot ==
  /\ queue # <<>>
  /\ Head(queue).by = "saveSummary"
  /\ Head(queue).op = "get"
  /\ LET n == Head(queue).call IN
     queue' = Append(Tail(queue),
                StorageSet("saveSummary", n,
                           SaveSummary(storage.summary_history, Markdown(n))))
  /\ UNCHANGED <<gvars, cvars, uvars, calls, historyList, summaryResult,
                 copied, finished, saveCalls>>

\* storage performs the write of saveSummary
saveSummarySet ==
  /\ queue # <<>>
  /\ Head(queue).by = "saveSummary"
  /\ Head(queue).op = "set"
  /\ storage' = [storage EXCEPT !.summary_history = Head(queue).value]
  /\ queue' = Tail(queue)
  /\ UNCHANGED <<gvars, cvars, keyStatus, runvars, calls, historyList,
                 summaryResult, copied, finished, saveCalls>>

\* storage answers the read of loadHistory: renderHistory(history)
loadHistoryGot ==
  /\ queue # <<>>
  /\ Head(queue).by = "loadHistory"
  /\ historyList' = storage.summary_history
  /\ queue' = Tail(queue)
  /\ UNCHANGED <<gvars, cvars, uvars, calls, summaryResult, copied, finished,
                 saveCalls>>

\* click on #clear-summary-btn
clearSummary ==
  /\ summary' = Null
  /\ summaryResult' = ""
  /\ resultShown' = FALSE
  /\ errorShown' = <<>>
  /\ UNCHANGED <<gvars, cvars, storage, keyStatus, seqvars, loading, calls,
                 queue, historyList, copied, finished, saveCalls>>

\* what a copy or download handler did: the message it showed when it found
\* no summary, the text it handed over, or the failure of the browser call
CopyReport(op, text, works, none, failure) ==
  /\ IF ~Truthy(text)
     THEN /\ errorShown' = <<none>>
          /\ copied' = [op |-> op, said |-> "no summary", text |-> ""]
     ELSE IF works
     THEN /\ copied' = [op |-> op, said |-> "done", text |-> text]
          /\ UNCHANGED errorShown
     ELSE /\ errorShown' = <<failure>>
          /\ copied' = [op |-> op, said |-> "failed", text |-> ""]
  /\ UNCHANGED <<gvars, cvars, storage, keyStatus, seqvars, loading, summary,
                 resultShown, calls, queue, historyList, summaryResult,
                 finished, saveCalls>>

\* click on #copy-md-btn; works: navigator.clipboard.writeText resolves
copyAsMarkdown(works) ==
  CopyReport("copyAsMarkdown", summary, works, NO_SUMMARY_TO_COPY, COPY_FAILED)

\* click on #copy-plain-btn: the text is read from #summary-result
copyAsPlainText(works) ==
  CopyReport("copyAsPlainText", summaryResult, works, NO_SUMMARY_TO_COPY,
             COPY_FAILED)

\* click on #download-md-btn; works: tabs.query and storage.get resolve
downloadAsMarkdown(works) ==
  CopyReport("downloadAsMarkdown", summary, works, NO_SUMMARY_TO_DOWNLOAD,
             DOWNLOAD_FAILED)

RunsNext ==
  \/ \E typed \in KeyInputs("openai") : saveApiKey("openai", typed)
  \/ \E p \in PageProviders : handleProviderChange(p)
  \/ summarizePageCalled
  \/ summarizePageGot
  \/ \E n \in 1..MaxClicks, x \in PageExtractions : summarizePageTab(n, x)
  \/ \E n \in 1..MaxClicks, renders \in BOOLEAN :
       summarizePageGenerated(n, Return(Markdown(n)), renders)
  \/ \E n \in 1..MaxClicks, err \in Rejections :
       summarizePageGenerated(n, Throw(err), TRUE)
  \/ saveSummaryGot
  \/ saveSummarySet
  \/ loadHistoryGot
  \/ clearSummary
  \/ \E works \in BOOLEAN : copyAsMarkdown(works)
  \/ \E works \in BOOLEAN : copyAsPlainText(works)
  \/ \E works \in BOOLEAN : downloadAsMarkdown(works)

RunsSpec == Init /\ [][RunsNext]_vars

\* ================================================================== claims
Done == pc = "done"

Threw == Done /\ outcome.tag = "throw"

\* a CanonicalError: exactly the fields type, userMessage, debugInfo, with a
\* type of the taxonomy
IsCanonicalError(v) ==
  /\ DOMAIN v = {"type", "userMessage", "debugInfo"}
  /\ v.type \in ErrorTypeValues

ThrewType(t) == Threw /\ IsCanonicalError(outcome.value) /\ outcome.value.type = t

\* C1: a dispatch that has ended either returned a summary or threw one
\* CanonicalError whose type is of the taxonomy; whatever the adapter raised
\* (TypeError, AbortError, {httpStatus, message}, SyntaxError), the value
\* thrown is never that raw failure.
C1_OnlyCanonicalErrors ==
  Done =>
    /\ outcome.tag \in {"return", "throw"}
    /\ outcome.tag = "return" => outcome.value \in SummaryTexts
    /\ outcome.tag = "throw" =>
         /\ IsCanonicalError(outcome.value)
         /\ outcome.value # raised

\* a JSON parse error of a success response ended as a CanonicalError
C1_Witness ==
  /\ Threw
  /\ raised.shape = "SyntaxError"
  /\ IsCanonicalError(outcome.value)

\* C2: when the dispatch's timer fires while the provider call is pending,
\* the dispatch ends with a CanonicalError of type timeout, and the signal of
\* a dispatch never fires more than once: it fired exactly once there.
C2_TimeoutAbortsOnce ==
  [][ /\ abortCount' <= 1
      /\ (pc = "fetching" /\ cur >= 1 /\ timer[cur] = "armed" /\ timer'[cur] = "fired")
           => /\ pc' = "done"
              /\ outcome'.tag = "throw"
              /\ outcome'.value.type = ERROR_TYPES.TIMEOUT
              /\ outcome'.value.userMessage = <<USER_MESSAGES.timeout>>
              /\ abortCount' = 1 ]_vars

\* a Claude dispatch timed out while its call was pending
C2_Witness ==
  /\ ThrewType(ERROR_TYPES.TIMEOUT)
  /\ provider = "claude"
  /\ fetchCalls = 1
  /\ status = NoStatus
  /\ abortCount = 1
  /\ timer[cur] = "fired"

\* C3: once a dispatch has ended, its timer is not armed, and no timer fires
\* after its dispatch ended; a dispatch in flight has at most its own timer.
C3_NoDanglingTimer ==
  /\ lateFires = 0
  /\ \A d \in 1..MaxDispatches :
       (d < cur \/ (d = cur /\ Done)) => timer[d] # "armed"

\* a failed dispatch and a successful one both ended with their timer cleared
C3_Witness ==
  /\ cur = 2
  /\ Done
  /\ timer[1] = "cleared"
  /\ timer[2] = "cleared"
  /\ outcome.tag = "return"

InFlight == pc \in {"imgfetch", "fetching", "okbody", "errbody"}

\* C4: every dispatch that was started eventually ends, even when no remote
\* endpoint ever answers (the timer's callback is run fairly).
C4_EveryDispatchEnds == InFlight ~> Done

\* the elements of a sequence
Range(seq) == { seq[i] : i \in DOMAIN seq }

\* the thrown CanonicalError is of type t with exactly the fixed message msg
ThrewFixed(t, msg) == ThrewType(t) /\ outcome.value.userMessage = <<msg>>

\* C5: a dispatch whose provider answered 400, 401 or 403 ends with a
\* CanonicalError of type unauthorized carrying the fixed invalid-API-key
\* message, whatever the error body held.
C5_BadKeyStatuses ==
  (Done /\ status \in {400, 401, 403}) =>
    ThrewFixed(ERROR_TYPES.UNAUTHORIZED, USER_MESSAGES.unauthorized)

\* Gemini answered 403 with an error message in the body
C5_Witness ==
  /\ Done
  /\ provider = "gemini"
  /\ status = 403
  /\ raised = HttpFailure(403, ProviderMessage)
  /\ ThrewType(ERROR_TYPES.UNAUTHORIZED)

\* C6: an HttpFailure with status 429 ends as rate_limit, one with a status
\* >= 500 as server_error, each with the fixed message of its type, and the
\* provider's message is no part of the userMessage.
C6_RateLimitAndServerError ==
  (Done /\ raised.shape = "object") =>
    /\ raised.httpStatus = 429 =>
         ThrewFixed(ERROR_TYPES.RATE_LIMIT, USER_MESSAGES.rate_limit)
    /\ raised.httpStatus >= 500 =>
         ThrewFixed(ERROR_TYPES.SERVER_ERROR, USER_MESSAGES.server_error)
    /\ (raised.httpStatus = 429 \/ raised.httpStatus >= 500) =>
         raised.message \notin Range(outcome.value.userMessage)

\* a 503 whose body carried a provider message
C6_Witness ==
  /\ Done
  /\ raised = HttpFailure(503, ProviderMessage)
  /\ ThrewType(ERROR_TYPES.SERVER_ERROR)

\* C7: an HttpFailure with status 404 ends as unknown with the fixed
\* model-not-found message, with or without a provider message in the body.
C7_ModelNotFound ==
  (Done /\ raised.shape = "object" /\ raised.httpStatus = 404) =>
    ThrewFixed(ERROR_TYPES.UNKNOWN, MODEL_NOT_FOUND_MESSAGE)

\* C8: a dispatch to an identifier outside the registry ends as unknown, with
\* no adapter invoked, no network call and no timer created.
C8_UnknownProvider ==
  (Done /\ provider \notin RegisteredProviders) =>
    /\ ThrewType(ERROR_TYPES.UNKNOWN)
    /\ adapterCalls = 0
    /\ fetchCalls = 0
    /\ timersCreated = 0

\* C9: the adapter is handed the caller's image list when it declares
\* supportsMultimodal and the empty list otherwise; without the capability
\* the provider call is made at once, text-only, and an error can only come
\* from a failure the adapter raised.
C9_ImagesFilteredByCapability ==
  adapterCalls = 1 =>
    /\ imagesPassed = IF SupportsMultimodal(provider) THEN images ELSE <<>>
    /\ ~SupportsMultimodal(provider) =>
         /\ fetchCalls = 1
         /\ request = BuildRequest(provider, <<>>, <<>>)
    /\ Threw => raised # NoError

\* images were extracted, the adapter got none and returned a summary
C9_Witness ==
  /\ Done
  /\ adapterCalls = 1
  /\ ~SupportsMultimodal(provider)
  /\ Len(images) = 2
  /\ imagesPassed = <<>>
  /\ outcome.tag = "return"

\* C10: each registered provider declares supportsMultimodal, so the images
\* of a dispatch reach its adapter.
C10_AllProvidersMultimodal ==
  (adapterCalls = 1 /\ provider \in RegisteredProviders) =>
    /\ SupportsMultimodal(provider)
    /\ imagesPassed = images

\* the success response of the current dispatch parsed to an object holding a
\* text at the provider's path
EnvelopeHoldsText ==
  /\ Done
  /\ body.kind = "json"
  /\ TextAt(provider, body.data) # Null

\* C11 (as stated): for each adapter and every text t, when the success
\* envelope holds t at the provider's path, the adapter returns exactly t and
\* the dispatch returns that same t.
C11_ReturnsEmbeddedText ==
  EnvelopeHoldsText =>
    /\ AdapterOkBody(provider, body) = Return(TextAt(provider, body.data))
    /\ outcome = Return(TextAt(provider, body.data))

\* C11 (amended): the same for every non-empty text t; an empty text at the
\* path fails the adapter's `!text` check and is thrown as an invalid response.
C11_ReturnsNonEmptyEmbeddedText ==
  (EnvelopeHoldsText /\ TextAt(provider, body.data) # "") =>
    /\ AdapterOkBody(provider, body) = Return(TextAt(provider, body.data))
    /\ outcome = Return(TextAt(provider, body.data))

C11_Witness ==
  /\ Done
  /\ provider = "gemini"
  /\ body = [kind |-> "json", data |-> Envelope("gemini", "summary A")]
  /\ outcome = Return("summary A")

\* every image fetch of the current Gemini dispatch has settled
GeminiImagesSettled ==
  /\ provider = "gemini"
  /\ Len(imagesPassed) > 0
  /\ pc \in {"fetching", "okbody", "errbody", "done"}

\* the images whose fetch produced data
Fetched == { i \in DOMAIN imageResults : imageResults[i].st = "data" }

\* the size in bytes the adapter computes for a fetched image
ImgBytes(i) == (imageResults[i].len * 3) \div 4

\* C12 (as stated): a failed image fetch never fails a Gemini request: the
\* main call is made; with 2 images, one failed and one fetched, the request
\* carries exactly the fetched image; with no fetched image it is text-only.
C12_FailedImageFetchTolerated ==
  GeminiImagesSettled =>
    /\ request # NoRequest
    /\ fetchCalls = 1
    /\ \A i \in DOMAIN imageResults :
         (Len(imagesPassed) = 2 /\ Fetched = {i}) =>
           request.attached = <<imagesPassed[i]>>
    /\ (Fetched = {}) => request.attached = <<>>

\* C12 (amended): the same, where the one fetched image is attached when it
\* fits the 3 MB payload cap and the request is text-only when it does not.
C12_FailedImageFetchToleratedWithinCap ==
  GeminiImagesSettled =>
    /\ request # NoRequest
    /\ fetchCalls = 1
    /\ \A i \in DOMAIN imageResults :
         (Len(imagesPassed) = 2 /\ Fetched = {i}) =>
           request.attached = IF ImgBytes(i) <= MAX_IMAGE_PAYLOAD
                              THEN <<imagesPassed[i]>> ELSE <<>>
    /\ (Fetched = {}) => request.attached = <<>>

C12_Witness ==
  /\ GeminiImagesSettled
  /\ Len(imagesPassed) = 2
  /\ imageResults[1] = NoImage
  /\ imageResults[2].st = "data"
  /\ request.attached = <<imagesPassed[2]>>
  /\ Done
  /\ outcome.tag = "return"

IsSubsequence(a, b) ==
  \E f \in [1..Len(a) -> 1..Len(b)] :
    /\ \A k \in 1..Len(a) : a[k] = b[f[k]]
    /\ \A j, k \in 1..Len(a) : j < k => f[j] < f[k]

\* C17: within one dispatch, whatever order the image fetches complete in,
\* the images attached to the outbound request are an order-preserving
\* subsequence of the extracted image list.
C17_AttachmentOrderPreserved ==
  request # NoRequest => IsSubsequence(request.attached, images)

C17_Witness ==
  /\ provider = "gemini"
  /\ Len(images) = 2
  /\ completed = <<2, 1>>
  /\ request # NoRequest
  /\ request.attached = images

\* the state of the current dispatch in the machine
\* Idle -> InFlight -> {Succeeded | Cancelled | Failed}
DispatchState ==
  CASE pc = "idle" -> "Idle"
    [] pc = "done" /\ outcome.tag = "return" -> "Succeeded"
    [] pc = "done" /\ outcome.tag = "throw"
         /\ outcome.value.type = ERROR_TYPES.TIMEOUT -> "Cancelled"
    [] pc = "done" -> "Failed"
    [] OTHER -> "InFlight"

TerminalStates == {"Succeeded", "Cancelled", "Failed"}

\* C18 (as stated): each dispatch follows Idle -> InFlight -> {Succeeded |
\* Cancelled | Failed}: a dispatch begins from Idle and is then in flight, a
\* dispatch in flight stays in flight or ends, an ended dispatch keeps its
\* state and its outcome; and a dispatch is Cancelled (kind timeout) only
\* when its own timer has fired.
C18_IdleInFlightTerminal ==
  [][ /\ (cur' = cur /\ DispatchState = "InFlight")
           => DispatchState' \in {"InFlight"} \cup TerminalStates
      /\ (cur' = cur /\ DispatchState \in TerminalStates)
           => (DispatchState' = DispatchState /\ outcome' = outcome)
      /\ (cur' = cur /\ DispatchState = "Idle") => DispatchState' = "Idle"
      /\ (cur' # cur)
           => /\ cur' = cur + 1
              /\ DispatchState \in {"Idle"} \cup TerminalStates
              /\ DispatchState' = "InFlight"
      /\ (DispatchState' = "Cancelled")
           => (timer'[cur'] = "fired" /\ aborted' /\ abortCount' = 1) ]_vars

\* C18 (amended): the same, except that a dispatch whose call is rejected
\* before anything is awaited (the provider is not in the registry, or the
\* value found there cannot be called) goes from Idle to Failed in the call
\* itself, without an in-flight phase and without a request.
C18_DispatchStateMachine ==
  [][ /\ (cur' = cur /\ DispatchState = "InFlight")
           => DispatchState' \in {"InFlight"} \cup TerminalStates
      /\ (cur' = cur /\ DispatchState \in TerminalStates)
           => (DispatchState' = DispatchState /\ outcome' = outcome)
      /\ (cur' = cur /\ DispatchState = "Idle") => DispatchState' = "Idle"
      /\ (cur' # cur)
           => /\ cur' = cur + 1
              /\ DispatchState \in {"Idle"} \cup TerminalStates
              /\ IF LookupProvider(provider') = "adapter"
                 THEN DispatchState' = "InFlight"
                 ELSE DispatchState' = "Failed" /\ request' = NoRequest
      /\ (DispatchState' = "Cancelled")
           => (timer'[cur'] = "fired" /\ aborted' /\ abortCount' = 1) ]_vars

\* a Gemini dispatch whose timer fired while its images were fetched was
\* cancelled when the main call began
C18_Witness ==
  /\ DispatchState = "Cancelled"
  /\ provider = "gemini"
  /\ Len(imagesPassed) = 2
  /\ timer[cur] = "fired"

\* C19: within one dispatch the adapter's generateSummary is invoked at most
\* once and at most one provider call is made, so at most one is in flight;
\* once the dispatch has ended (failure and timeout included) no adapter call
\* and no provider call is started for it again.
C19_NoSecondAdapterCall ==
  [][ /\ adapterCalls' <= 1
      /\ fetchCalls' <= adapterCalls'
      /\ (cur' = cur /\ pc = "done")
           => (adapterCalls' = adapterCalls /\ fetchCalls' = fetchCalls
               /\ request' = request /\ pc' = "done") ]_vars

C19_Witness ==
  /\ ThrewType(ERROR_TYPES.RATE_LIMIT)
  /\ adapterCalls = 1
  /\ fetchCalls = 1
  /\ cur = MaxDispatches

\* the kind the stated priority order gives: the triggers are the code's,
\* the order is TIMEOUT, NETWORK_ERROR, UNAUTHORIZED, RATE_LIMIT,
\* UNKNOWN (404), SERVER_ERROR, UNKNOWN
KindByStatedPriority(e) ==
  IF e.error.name = "AbortError" THEN ERROR_TYPES.TIMEOUT
  ELSE IF e.error.shape = "TypeError" /\ IncludesFetch(e.error.message)
  THEN ERROR_TYPES.NETWORK_ERROR
  ELSE IF e.httpStatus \in {400, 401, 403} THEN ERROR_TYPES.UNAUTHORIZED
  ELSE IF e.httpStatus = 429 THEN ERROR_TYPES.RATE_LIMIT
  ELSE IF e.httpStatus = 404 THEN ERROR_TYPES.UNKNOWN
  ELSE IF e.httpStatus >= 500 THEN ERROR_TYPES.SERVER_ERROR
  ELSE ERROR_TYPES.UNKNOWN

ShortText(x) == x.kind = "content" /\ x.len < 100

\* C13: summarizePage dispatches only when the extracted text has length
\* >= 100; when the text is empty or shorter the run ends with the error of
\* kind content_extraction_failed, its fixed message is shown, and no
\* dispatch, adapter call or provider call happens in that run.
C13_ShortContentNeverDispatched ==
  [][ /\ (cur' # cur) => (extracted'.kind = "content" /\ extracted'.len >= 100)
      /\ (runPc = "extract" /\ ShortText(extracted'))
           => /\ runPc' = "ended"
              /\ runResult' = "failed"
              /\ reported'.type = ERROR_TYPES.CONTENT_EXTRACTION_FAILED
              /\ errorShown' = <<USER_MESSAGES.content_extraction_failed>>
              /\ ~loading'
              /\ runDispatches' = <<>>
              /\ gvars' = gvars
      /\ (ShortText(extracted) /\ runCount' = runCount)
           => (cur' = cur /\ adapterCalls' = adapterCalls
               /\ fetchCalls' = fetchCalls /\ pc' = pc /\ runDispatches' = <<>>) ]_vars

\* the second run found 99 characters and ended without a dispatch, after a
\* first run that had dispatched
C13_Witness ==
  /\ runPc = "ended"
  /\ extracted.kind = "content"
  /\ extracted.len = 99
  /\ reported.type = ERROR_TYPES.CONTENT_EXTRACTION_FAILED
  /\ runDispatches = <<>>
  /\ runCount = 2
  /\ cur = 1

RunFailed == runPc = "ended" /\ runResult = "failed"

OnlyKeyOfMayChange(p) ==
  /\ \A q \in RegisteredProviders \ {p} : storage'[KeyName(q)] = storage[KeyName(q)]
  /\ storage'.ai_provider = storage.ai_provider
  /\ storage'.summary_history = storage.summary_history

\* C16: keys are stored per provider and the choice persists: saveApiKey(p)
\* changes only the stored key of p (to the trimmed text of its field);
\* handleProviderChange changes only the stored choice; summarizePage takes
\* the stored provider, openai when none was ever stored, with that
\* provider's own stored key, and dispatches with exactly these.
C16_KeysPerProvider ==
  [][ /\ \A p \in RegisteredProviders : \A typed \in KeyInputs(p) :
           saveApiKey(p, typed)
             => /\ OnlyKeyOfMayChange(p)
                /\ storage'[KeyName(p)] \in {storage[KeyName(p)], Trim(typed)}
      /\ \A p \in RegisteredProviders :
           handleProviderChange(p)
             => storage' = [storage EXCEPT !.ai_provider = p]
      /\ (runPc = "storage" /\ runPc' # "storage")
           => /\ runProvider' = IF storage.ai_provider = Null THEN "openai"
                                ELSE storage.ai_provider
              /\ runKey' = storage[KeyName(runProvider')]
              /\ storage' = storage
      /\ (cur' # cur)
           => /\ provider' = runProvider
              /\ runDispatches' = <<[provider |-> runProvider, apiKey |-> runKey]>>
              /\ runKey # NoKey ]_vars

\* gemini was chosen and dispatched with gemini's key while openai's key,
\* a different one, is stored too
C16_Witness ==
  /\ storage.ai_provider = "gemini"
  /\ storage.openai_api_key = <<"o", "k">>
  /\ storage.gemini_api_key = <<"g", "k">>
  /\ runPc = "generate"
  /\ provider = "gemini"
  /\ runDispatches = <<[provider |-> "gemini", apiKey |-> <<"g", "k">>]>>

\* the adapter's fetch() of the current dispatch was rejected before any
\* response, and so any HTTP status, was received
TransportFailure ==
  /\ Done
  /\ fetchCalls = 1
  /\ status = NoStatus
  /\ raised.shape = "TypeError"

\* C21: every transport-level failure of the adapter's network call with no
\* HTTP status received (fetch rejected with a TypeError) is classified
\* network_error by its failure type alone, whatever its message says.
C21_TransportFailureIsNetworkError ==
  TransportFailure =>
    /\ ThrewType(ERROR_TYPES.NETWORK_ERROR)
    /\ outcome.value.userMessage = <<USER_MESSAGES.network_error>>

\* the success response of the current dispatch parsed, to an object or to
\* the JSON value null, and holds no text at the provider's path
ParsedWithoutText ==
  /\ Done
  /\ \/ body.kind = "null"
     \/ body.kind = "json" /\ TextAt(provider, body.data) = Null

\* C22: for each adapter, a success response whose body parses but has no
\* text at the provider's path makes the adapter raise {httpStatus: 500,
\* message: "Invalid response structure from <provider>"}: never a summary,
\* never a failure of another shape.
C22_InvalidStructureIsHttp500 ==
  ParsedWithoutText =>
    /\ AdapterOkBody(provider, body) =
         Throw(HttpFailure(500, "Invalid response structure from " \o ProviderName(provider)))
    /\ raised = HttpFailure(500, "Invalid response structure from " \o ProviderName(provider))
    /\ Threw

\* the provider answered with a success status and a body that parses to an
\* object without text at the path (malformed) or is not JSON (unparseable)
MalformedOrUnparseable ==
  /\ Done
  /\ \/ body.kind = "nonjson"
     \/ body.kind = "json" /\ TextAt(provider, body.data) = Null

\* C23: a dispatch whose provider answered with a malformed or an
\* unparseable success response ends with a CanonicalError of kind unknown
\* carrying the generic message.
C23_MalformedResponseIsUnknown ==
  MalformedOrUnparseable =>
    /\ ThrewType(ERROR_TYPES.UNKNOWN)
    /\ outcome.value.userMessage = <<USER_MESSAGES.unknown>>

\* the dispatch ended on an HTTP failure that matches no specific kind and
\* carries a message of the provider
GenericHttpFailureWithMessage ==
  /\ Threw
  /\ raised.shape = "object"
  /\ raised.httpStatus \notin {400, 401, 403, 404, 429}
  /\ raised.httpStatus # NoStatus
  /\ raised.httpStatus < 500
  /\ raised.message = ProviderMessage

\* C24: an HTTP failure that matches no specific kind and carries a
\* provider message gives kind unknown with the generic unknown message
\* followed by the provider's message; in no other case does the provider's
\* message appear in a userMessage.
C24_ProviderMessageAppendedOnlyForGeneric ==
  /\ GenericHttpFailureWithMessage
       => /\ ThrewType(ERROR_TYPES.UNKNOWN)
          /\ Len(outcome.value.userMessage) >= 2
          /\ Head(outcome.value.userMessage) = USER_MESSAGES.unknown
          /\ outcome.value.userMessage[Len(outcome.value.userMessage)] = ProviderMessage
  /\ (Threw /\ ProviderMessage \in Range(outcome.value.userMessage))
       => GenericHttpFailureWithMessage

\* C25: in every outbound provider request the system instruction carries
\* the image-usage hint if and only if at least one image is attached to
\* that request.
C25_HintIffImageAttached ==
  request # NoRequest => (request.hint <=> Len(request.attached) > 0)


\* a key with a character that is not a blank
UsableKey(k) == k # NoKey /\ Trim(k) # <<>>

RunsInProgress == { n \in DOMAIN calls : InProgress(n) }

\* C28: at most one summarization run is in progress at any time: a second
\* summarizePage cannot start before the first one has finished, for every
\* interleaving of clicks with the run's asynchronous storage read.
C28_AtMostOneRunInProgress == Cardinality(RunsInProgress) <= 1


\* C29: after a successful summarization the history list rendered by the
\* loadHistory call that follows the save contains the summary just
\* produced: the read of loadHistory observes the write of saveSummary of
\* that run.
C29_LoadHistoryShowsNewSummary ==
  [][ (queue # <<>> /\ Head(queue).by = "loadHistory" /\ Head(queue).call > 0
         /\ loadHistoryGot)
        => Markdown(Head(queue).call) \in Range(historyList') ]_vars


\* no saveSummary call is between its read and the end of its write
NoSaveInFlight == \A i \in DOMAIN queue : queue[i].by # "saveSummary"

\* the last HISTORY_LIMIT texts saveSummary was called with, newest first
LastSaved ==
  LET n == Len(saveCalls)
      k == IF n > HISTORY_LIMIT THEN HISTORY_LIMIT ELSE n
  IN [i \in 1..k |-> saveCalls[n + 1 - i]]

\* C26: after any sequence of saveSummary calls, including calls whose
\* storage reads and writes interleave, the stored history holds at most 10
\* entries, newest first, and they are exactly the most recently saved
\* summaries: none of the last 10 saved is missing.
C26_HistoryHoldsLastSaved ==
  /\ Len(storage.summary_history) <= HISTORY_LIMIT
  /\ NoSaveInFlight => storage.summary_history = LastSaved


\* the invocation of summarizePage that returned last ended in an error,
\* it was started after an earlier invocation had returned with a summary,
\* and no invocation is in progress
FailedAfterSuccess ==
  /\ RunsInProgress = {}
  /\ Len(finished) >= 2
  /\ LET last == finished[Len(finished)] IN
     /\ calls[last].result # "ok"
     /\ \E i \in 1..(Len(finished) - 1) :
          /\ calls[finished[i]].result = "ok"
          /\ calls[last].after >= i

\* C30: after a summarization run that ended in an error no summary of an
\* earlier run can be copied or downloaded: copyAsMarkdown, copyAsPlainText
\* and downloadAsMarkdown each report that there is no summary, for every
\* sequence of an earlier successful run followed by a failed run.
C30_NothingToCopyAfterFailedRun ==
  [][ \A works \in BOOLEAN :
        (FailedAfterSuccess
           /\ (copyAsMarkdown(works) \/ copyAsPlainText(works)
                 \/ downloadAsMarkdown(works)))
          => copied'.said = "no summary" ]_vars

====
